---- MODULE Spec2Model ----
(***************************************************************************)
(* Model of traffic_dashboard.py: load_data (CSV -> DataFrame with         *)
(* risk_category) and one pass of main (city selection, city filter, map,  *)
(* top-roads table, trend chart, category tabs), re-executed by the host   *)
(* framework whenever the user picks another city.                         *)
(*                                                                         *)
(* Floats are exact decimals with Decimals fractional digits: a score is   *)
(* [nan |-> FALSE, val |-> v] for the number v / Scale, or NaN.            *)
(***************************************************************************)
EXTENDS Integers, Sequences, FiniteSets, TLC

\* ------------------------------------------------------------------ bounds
MaxRows == 2        \* rows of an exhaustively enumerated CSV file
MaxRuns == 2        \* passes of main in one session
PermLimit == 3      \* up to this many scored rows are sorted into every possible order

\* --------------------------------------------------------- program constants
TopN == 10
Decimals == 3
Scale == 10 ^ Decimals
HighThreshold == (6 * Scale) \div 10
MediumThreshold == (3 * Scale) \div 10

RequiredColumns == {"city", "road_name", "risk_score", "latitude", "longitude"}

\* ------------------------------------------------------------------ floats
NaN == [nan |-> TRUE, val |-> 0]

Num(v) == [nan |-> FALSE, val |-> v]

\* IEEE comparison: every comparison with NaN is false
FloatGe(a, b) == ~a.nan /\ ~b.nan /\ a.val >= b.val

\* ----------------------------------------------------------- pd.to_numeric
DigitVal == [c \in {"0", "1", "2", "3", "4", "5", "6", "7", "8", "9"} |->
               CASE c = "0" -> 0 [] c = "1" -> 1 [] c = "2" -> 2 [] c = "3" -> 3
                 [] c = "4" -> 4 [] c = "5" -> 5 [] c = "6" -> 6 [] c = "7" -> 7
                 [] c = "8" -> 8 [] c = "9" -> 9]

IsDigits(s) == \A i \in 1..Len(s) : s[i] \in DOMAIN DigitVal

RECURSIVE DigitsValue(_)
DigitsValue(s) ==
    IF s = <<>> THEN 0
    ELSE 10 * DigitsValue(SubSeq(s, 1, Len(s) - 1)) + DigitVal[s[Len(s)]]

\* errors='coerce': a cell that is not a decimal literal becomes NaN
ToNumeric(s) ==
    LET dots == {i \in 1..Len(s) : s[i] = "."}
    IN  IF dots = {} THEN
            IF s # <<>> /\ IsDigits(s) THEN Num(DigitsValue(s) * Scale) ELSE NaN
        ELSE IF Cardinality(dots) = 1 THEN
            LET p == CHOOSE i \in dots : TRUE
                ip == SubSeq(s, 1, p - 1)
                fp == SubSeq(s, p + 1, Len(s))
            IN  IF /\ IsDigits(ip) /\ IsDigits(fp)
                   /\ Len(ip) + Len(fp) > 0
                   /\ Len(fp) <= Decimals
                THEN Num(DigitsValue(ip) * Scale
                         + DigitsValue(fp) * 10 ^ (Decimals - Len(fp)))
                ELSE NaN
        ELSE NaN

\* ------------------------------------------------------- categorize_risk
categorize_risk_strict(score) ==
    IF FloatGe(score, Num(HighThreshold)) /\ score.val # HighThreshold THEN "High"
    ELSE IF FloatGe(score, Num(MediumThreshold)) /\ score.val # MediumThreshold
         THEN "Medium"
    ELSE "Low"

categorize_risk_nan(score) ==
    IF score.nan THEN "None"
    ELSE IF FloatGe(score, Num(HighThreshold)) THEN "High"
    ELSE IF FloatGe(score, Num(MediumThreshold)) THEN "Medium"
    ELSE "Low"

categorize_risk(score) ==
    IF FloatGe(score, Num(HighThreshold)) THEN "High"
    ELSE IF FloatGe(score, Num(MediumThreshold)) THEN "Medium"
    ELSE "Low"

\* ------------------------------------------------------------- DataFrames
\* A frame is its set of column names and its rows in order; a row maps
\* every column, and "index" (the row label), to a value.
NoFrame == [columns |-> {}, rows |-> <<>>, bound |-> FALSE]

Frame(cols, rows) == [columns |-> cols, rows |-> rows, bound |-> TRUE]

Empty(df) == Len(df.rows) = 0

\* df[col] = values   (values[i] is the value for row i)
SetColumn(df, col, values) ==
    Frame(df.columns \cup {col},
          [i \in 1..Len(df.rows) |->
              [c \in DOMAIN df.rows[i] \cup {col} |->
                  IF c = col THEN values[i] ELSE df.rows[i][c]]])

\* df[[cols]]
SelectColumns(df, cols) ==
    Frame(cols,
          [i \in 1..Len(df.rows) |->
              [c \in cols \cup {"index"} |-> df.rows[i][c]]])

\* new name of column c under a rename mapping (a set of <<old, new>>)
Renamed(c, mapping) ==
    IF \E m \in mapping : m[1] = c
    THEN (CHOOSE m \in mapping : m[1] = c)[2]
    ELSE c

RenameColumns(df, mapping) ==
    Frame({Renamed(c, mapping) : c \in df.columns},
          [i \in 1..Len(df.rows) |->
              [n \in {Renamed(c, mapping) : c \in DOMAIN df.rows[i]} |->
                  df.rows[i][CHOOSE c \in DOMAIN df.rows[i] : Renamed(c, mapping) = n]]])

\* df[df[col] == value]
FilterEq(df, col, value) ==
    Frame(df.columns, SelectSeq(df.rows, LAMBDA r : r[col] = value))


\* df.head(n)
HeadRows(df, n) ==
    Frame(df.columns, SubSeq(df.rows, 1, IF Len(df.rows) < n THEN Len(df.rows) ELSE n))

\* ------------------------------------------ sort_values(..., ascending=False)
Reverse(s) == [i \in 1..Len(s) |-> s[Len(s) + 1 - i]]

Key(r) == r["risk_score"]

\* insert r behind every row whose key is <= r's key
InsertAsc(s, r) ==
    LET k == Cardinality({i \in 1..Len(s) : Key(s[i]).val <= Key(r).val})
    IN  SubSeq(s, 1, k) \o <<r>> \o SubSeq(s, k + 1, Len(s))

RECURSIVE StableAsc(_)
StableAsc(s) ==
    IF s = <<>> THEN <<>>
    ELSE InsertAsc(StableAsc(SubSeq(s, 1, Len(s) - 1)), s[Len(s)])

IsDescending(s) == \A i \in 1..(Len(s) - 1) : Key(s[i]).val >= Key(s[i + 1]).val

\* The orders the default kind='quicksort' can give to rows without NaN
\* keys: descending keys, equal keys in an order the sort does not fix.
\* Up to PermLimit rows every such order is produced; beyond it, the one
\* that keeps equal keys in input order and the one that reverses them.
ArgsortDescending(s) ==
    LET n == Len(s)
    IN  IF n <= PermLimit THEN
            {[i \in 1..n |-> s[q[i]]] :
                q \in {f \in [1..n -> 1..n] :
                         /\ \A i, j \in 1..n : f[i] = f[j] => i = j
                         /\ IsDescending([i \in 1..n |-> s[f[i]]])}}
        ELSE {Reverse(StableAsc(Reverse(s))), Reverse(StableAsc(s))}

\* na_position='last': rows with a NaN key follow, in input order
SortValuesDescending(df) ==
    LET nonNan == SelectSeq(df.rows, LAMBDA r : ~Key(r).nan)
        nans == SelectSeq(df.rows, LAMBDA r : Key(r).nan)
    IN  {Frame(df.columns, o \o nans) : o \in ArgsortDescending(nonNan)}

\* ------------------------------------------------------------ formatting
\* Python round(): the integer nearest to p / q (q > 0), ties to even
RoundHalfEven(p, q) ==
    LET fl == p \div q
        r2 == 2 * (p % q)
    IN  IF r2 < q THEN fl
        ELSE IF r2 > q THEN fl + 1
        ELSE IF fl % 2 = 0 THEN fl ELSE fl + 1

\* f"{x:.1f}%" for x = v / Scale
FormatPercent(x) ==
    IF x.nan THEN "nan%"
    ELSE LET t == RoundHalfEven(x.val * 10, Scale)
         IN  ToString(t \div 10) \o "." \o ToString(t % 10) \o "%"

\* --------------------------------------------------------------- the file
Cities == {"Karachi", "Lahore"}

\* sorted() order of the city names
CityOrder == <<"Karachi", "Lahore">>

NoCity == "None"

RawScores == { <<"0", ".", "2", "9">>, <<"0", ".", "3">>, <<"0", ".", "6">>,
               <<"0", ".", "7", "5">>, <<"a", "b", "c">> }

Cells == [city : Cities, risk_score : RawScores]

ShortCells == UNION {[1..n -> Cells] : n \in 0..MaxRows}

Cycle(seed, n) == [i \in 1..n |-> seed[((i - 1) % Len(seed)) + 1]]

\* files with more rows than the table shows: a short file repeated
LongCells == {Cycle(seed, TopN + 1) : seed \in ShortCells \ {<<>>}}

CsvRow(cell, i) ==
    [city |-> cell.city, road_name |-> "Road " \o ToString(i),
     risk_score |-> cell.risk_score, latitude |-> 24 + i, longitude |-> 67 + i]

Project(r, cols) == [c \in cols |-> r[c]]

CsvFile(readable, cols, cells) ==
    [readable |-> readable, columns |-> cols,
     rows |-> [i \in 1..Len(cells) |-> Project(CsvRow(cells[i], i), cols)]]

Files ==
    {CsvFile(FALSE, {}, <<>>)}
    \cup {CsvFile(TRUE, RequiredColumns, cells) : cells \in ShortCells \cup LongCells}
    \cup {CsvFile(TRUE, RequiredColumns \ {c}, cells) :
            c \in RequiredColumns, cells \in ShortCells}

\* ----------------------------------------------------------- pd.read_csv
read_csv(f) ==
    Frame(f.columns,
          [i \in 1..Len(f.rows) |->
              [c \in f.columns \cup {"index"} |->
                  IF c = "index" THEN i - 1 ELSE f.rows[i][c]]])

\* load_data once read_csv has succeeded and risk_score is a column
load_data(f) ==
    LET df == read_csv(f)
        num == SetColumn(df, "risk_score",
                         [i \in 1..Len(df.rows) |-> ToNumeric(df.rows[i]["risk_score"])])
    IN  SetColumn(num, "risk_category",
                  [i \in 1..Len(num.rows) |-> categorize_risk(num.rows[i]["risk_score"])])

\* ------------------------------------------------------------------ state
VARIABLES file, pc, error, frames, options, widget, selected,
          map_view, table_view, trend_view, tabs_view, reads, runs

vars == <<file, pc, error, frames, options, widget, selected,
          map_view, table_view, trend_view, tabs_view, reads, runs>>

FrameNames == {"data", "city_data", "top", "top_display",
               "high_data", "med_data", "low_data"}

NoFrames == [n \in FrameNames |-> NoFrame]

NoView == [kind |-> "none", body |-> <<>>]

NoTabs == [High |-> NoView, Medium |-> NoView, Low |-> NoView]

data == frames["data"]

city_data == frames["city_data"]

top == frames["top"]

Init ==
    /\ file \in Files
    /\ pc = "load"
    /\ error = "none"
    /\ frames = NoFrames
    /\ options = <<>>
    /\ widget = NoCity
    /\ selected = NoCity
    /\ map_view = NoView
    /\ table_view = NoView
    /\ trend_view = NoView
    /\ tabs_view = NoTabs
    /\ reads = 0
    /\ runs = 1

Raise(exc) ==
    /\ pc' = "failed"
    /\ error' = exc

\* frames under a new binding of one name
Bind(fr, name, df) == [fr EXCEPT ![name] = df]

\* df.rename(columns=mapping, inplace=True) on the frame bound to name
RenameInplace_shared(fr, name, mapping) ==
    [fr EXCEPT ![name] = RenameColumns(fr[name], mapping),
               !["data"] = RenameColumns(fr["data"], mapping)]

RenameInplace(fr, name, mapping) ==
    [fr EXCEPT ![name] = RenameColumns(fr[name], mapping)]

\* df[col] = values on the frame bound to name
SetItem(fr, name, col, values) ==
    [fr EXCEPT ![name] = SetColumn(fr[name], col, values)]

\* ------------------------------------------------- line 82: load_data(path)
LoadData ==
    /\ pc = "load"
    /\ reads' = reads + 1
    /\ IF ~file.readable THEN
            Raise("FileNotFoundError") /\ UNCHANGED frames
       ELSE IF "risk_score" \notin file.columns THEN
            Raise("KeyError") /\ UNCHANGED frames
       ELSE /\ frames' = Bind(frames, "data", load_data(file))
            /\ pc' = "select"
            /\ UNCHANGED error
    /\ UNCHANGED <<file, options, widget, selected,
                   map_view, table_view, trend_view, tabs_view, runs>>

\* ------------------------------------------- lines 85-86: the city selectbox
\* sorted(data['city'].unique())
SortedCities(df) ==
    SelectSeq(CityOrder, LAMBDA c : \E i \in 1..Len(df.rows) : df.rows[i]["city"] = c)

InSeq(x, s) == \E i \in 1..Len(s) : s[i] = x

\* the value st.selectbox returns: the user's pick, else the first option
SelectboxValue(opts, picked) ==
    IF opts = <<>> THEN NoCity
    ELSE IF InSeq(picked, opts) THEN picked
    ELSE opts[1]

SelectCity ==
    /\ pc = "select"
    /\ IF "city" \notin data.columns THEN
            Raise("KeyError") /\ UNCHANGED <<options, selected>>
       ELSE /\ options' = SortedCities(data)
            /\ selected' = SelectboxValue(SortedCities(data), widget)
            /\ pc' = "filter"
            /\ UNCHANGED error
    /\ UNCHANGED <<file, frames, widget,
                   map_view, table_view, trend_view, tabs_view, reads, runs>>

\* --------------------------------------------------------------- line 89
filter_by_city_first(df, city) ==
    Frame(df.columns,
          LET hit == SelectSeq(df.rows, LAMBDA r : r["city"] = city)
          IN  IF Len(hit) > 1 THEN SubSeq(hit, 2, Len(hit)) ELSE hit)

filter_by_city(df, city) == FilterEq(df, "city", city)

FilterCity ==
    /\ pc = "filter"
    /\ frames' = Bind(frames, "city_data", filter_by_city(data, selected))
    /\ pc' = "map"
    /\ UNCHANGED <<file, error, options, widget, selected,
                   map_view, table_view, trend_view, tabs_view, reads, runs>>

\* ---------------------------------------------------------- lines 92-113
colour_map(cat) ==
    CASE cat = "High" -> "red"
      [] cat = "Medium" -> "orange"
      [] cat = "Low" -> "green"
      [] OTHER -> "blue"

RECURSIVE SumColumn(_, _)
SumColumn(rows, col) ==
    IF rows = <<>> THEN 0 ELSE rows[1][col] + SumColumn(Tail(rows), col)

\* the centre as the two column sums over the row count, then one marker
\* for each row
MapOf(df) ==
    [kind |-> "map",
     body |-> [centre |-> <<SumColumn(df.rows, "latitude"),
                            SumColumn(df.rows, "longitude"), Len(df.rows)>>,
               markers |-> [i \in 1..Len(df.rows) |->
                   [location |-> <<df.rows[i]["latitude"], df.rows[i]["longitude"]>>,
                    road |-> df.rows[i]["road_name"],
                    score |-> df.rows[i]["risk_score"],
                    color |-> colour_map(df.rows[i]["risk_category"])]]]]

MapStep ==
    /\ pc = "map"
    /\ IF ~Empty(city_data) THEN
            IF {"latitude", "longitude", "road_name"} \subseteq city_data.columns THEN
                /\ map_view' = MapOf(city_data)
                /\ pc' = "top"
                /\ UNCHANGED error
            ELSE Raise("KeyError") /\ UNCHANGED map_view
       ELSE /\ map_view' = [kind |-> "info", body |-> "No data available for this city."]
            /\ pc' = "top"
            /\ UNCHANGED error
    /\ UNCHANGED <<file, frames, options, widget, selected,
                   table_view, trend_view, tabs_view, reads, runs>>

\* --------------------------------------------------------- lines 116-124
head_more(df) == HeadRows(df, TopN + 1)

head(df) == HeadRows(df, TopN)

\* top['risk_score'] * 100
TimesHundred(x) == IF x.nan THEN NaN ELSE Num(x.val * 100)

TopDisplayMapping ==
    {<<"road_name", "Road">>, <<"risk_percentage", "Risk (%)">>,
     <<"risk_category", "Category">>}

\* lines 119-123 on the frames, top already bound
TopDisplayFrames(fr) ==
    LET f1 == SetItem(fr, "top", "risk_percentage",
                      [i \in 1..Len(fr["top"].rows) |->
                          TimesHundred(fr["top"].rows[i]["risk_score"])])
        f2 == Bind(f1, "top_display",
                   SelectColumns(f1["top"],
                                 {"road_name", "risk_percentage", "risk_category"}))
        f3 == RenameInplace(f2, "top_display", TopDisplayMapping)
    IN  SetItem(f3, "top_display", "Risk (%)",
                [i \in 1..Len(f3["top_display"].rows) |->
                    FormatPercent(f3["top_display"].rows[i]["Risk (%)"])])

TopStep ==
    /\ pc = "top"
    /\ \E sorted \in SortValuesDescending(city_data) :
          LET f0 == Bind(frames, "top", head(sorted))
          IN  IF "road_name" \in city_data.columns THEN
                  /\ frames' = TopDisplayFrames(f0)
                  /\ table_view' = [kind |-> "table",
                                    body |-> frames'["top_display"].rows]
                  /\ pc' = "trend"
                  /\ UNCHANGED error
              ELSE \* line 119 has run, line 120 raises
                  /\ frames' = SetItem(f0, "top", "risk_percentage",
                                       [i \in 1..Len(f0["top"].rows) |->
                                           TimesHundred(f0["top"].rows[i]["risk_score"])])
                  /\ Raise("KeyError")
                  /\ UNCHANGED table_view
    /\ UNCHANGED <<file, options, widget, selected,
                   map_view, trend_view, tabs_view, reads, runs>>

\* --------------------------------------------------------- lines 127-144
RECURSIVE SumScores(_)
SumScores(rows) ==
    IF rows = <<>> THEN 0 ELSE Key(rows[1]).val + SumScores(Tail(rows))

\* Series.mean() skips NaN; the mean of no value is NaN
ScoredRows(df) == SelectSeq(df.rows, LAMBDA r : ~Key(r).nan)

\* max(int(round(mean * 10)), 1), for at least one scored row
TrendBase(df) ==
    LET r == RoundHalfEven(SumScores(ScoredRows(df)) * 10, Len(ScoredRows(df)) * Scale)
    IN  IF r > 1 THEN r ELSE 1

\* the seeded Poisson draw is a function of base alone
TrendStep ==
    /\ pc = "trend"
    /\ IF ~Empty(city_data) THEN
            IF ScoredRows(city_data) = <<>> THEN
                \* round(nan): ValueError
                Raise("ValueError") /\ UNCHANGED trend_view
            ELSE /\ trend_view' = [kind |-> "chart", body |-> TrendBase(city_data)]
                 /\ pc' = "tabs"
                 /\ UNCHANGED error
       ELSE /\ trend_view' = [kind |-> "text",
                              body |-> "Insufficient data to display risk trend."]
            /\ pc' = "tabs"
            /\ UNCHANGED error
    /\ UNCHANGED <<file, frames, options, widget, selected,
                   map_view, table_view, tabs_view, reads, runs>>

\* --------------------------------------------------------- lines 147-163
TabMapping == {<<"road_name", "Road">>, <<"risk_score", "Score">>}

tab_filter_not_high(df, cat) ==
    IF cat = "Medium"
    THEN Frame(df.columns, SelectSeq(df.rows, LAMBDA r : r["risk_category"] # "High"))
    ELSE FilterEq(df, "risk_category", cat)

\* city_data[city_data['risk_category'] == cat]
tab_filter(df, cat) == FilterEq(df, "risk_category", cat)

\* one tab: filter, column selection, rename in place
TabFrames(fr, name, cat) ==
    RenameInplace(
        Bind(fr, name,
             SelectColumns(tab_filter(fr["city_data"], cat), {"road_name", "risk_score"})),
        name, TabMapping)

TabTable(df) == [kind |-> "table", body |-> df.rows]

TabsStep ==
    /\ pc = "tabs"
    /\ IF "road_name" \in city_data.columns THEN
            LET f1 == TabFrames(frames, "high_data", "High")
                f2 == TabFrames(f1, "med_data", "Medium")
                f3 == TabFrames(f2, "low_data", "Low")
            IN  /\ frames' = f3
                /\ tabs_view' = [High |-> TabTable(f3["high_data"]),
                                 Medium |-> TabTable(f3["med_data"]),
                                 Low |-> TabTable(f3["low_data"])]
                /\ pc' = "done"
                /\ UNCHANGED error
       ELSE Raise("KeyError") /\ UNCHANGED <<frames, tabs_view>>
    /\ UNCHANGED <<file, options, widget, selected,
                   map_view, table_view, trend_view, reads, runs>>

\* ------------------------------------------------------------------ rerun
\* The user picks another city in the selectbox the last pass has shown;
\* the script is executed again from line 76 with a cleared page.
Rerun(c) ==
    /\ pc \in {"done", "failed"}
    /\ runs < MaxRuns
    /\ InSeq(c, options)
    /\ c # selected
    /\ widget' = c
    /\ pc' = "load"
    /\ error' = "none"
    /\ frames' = NoFrames
    /\ options' = <<>>
    /\ selected' = NoCity
    /\ map_view' = NoView
    /\ table_view' = NoView
    /\ trend_view' = NoView
    /\ tabs_view' = NoTabs
    /\ runs' = runs + 1
    /\ UNCHANGED <<file, reads>>

SelectAnotherCity == \E c \in Cities : Rerun(c)

Next ==
    \/ LoadData
    \/ SelectCity
    \/ FilterCity
    \/ MapStep
    \/ TopStep
    \/ TrendStep
    \/ TabsStep
    \/ SelectAnotherCity

Spec == Init /\ [][Next]_vars

\* =================================================================== claims

Categories == {"High", "Medium", "Low"}

Category(r) == r["risk_category"]

Indices(rows) == {rows[i]["index"] : i \in 1..Len(rows)}

\* C1: every numeric risk_score of a loaded row is categorised High iff it
\* is >= 0.6, Medium iff it is >= 0.3 and < 0.6, Low iff it is < 0.3.
C1_Thresholds ==
    \A i \in 1..Len(data.rows) :
        LET r == data.rows[i]
            v == Key(r).val * 10
        IN  ~Key(r).nan =>
                /\ Category(r) = "High" <=> v >= 6 * Scale
                /\ Category(r) = "Medium" <=> (v >= 3 * Scale /\ v < 6 * Scale)
                /\ Category(r) = "Low" <=> v < 3 * Scale

\* a loaded file with a row exactly at 0.3 and a row exactly at 0.6
C1_Witness ==
    /\ data.bound
    /\ \E i, j \in 1..Len(data.rows) :
          /\ Key(data.rows[i]) = Num((3 * Scale) \div 10)
          /\ Category(data.rows[i]) = "Medium"
          /\ Key(data.rows[j]) = Num((6 * Scale) \div 10)
          /\ Category(data.rows[j]) = "High"

\* a cell with a character that is neither a digit nor the decimal point
NotANumber(s) == \E i \in 1..Len(s) : s[i] \notin (DOMAIN DigitVal) \cup {"."}

\* C2: a readable file with a risk_score column always loads: there is one
\* record per row, each with a category among High, Medium and Low, and a
\* row whose score cannot be parsed has the missing value and is Low.
C2_LoadTotal ==
    (file.readable /\ "risk_score" \in file.columns /\ pc # "load") =>
        /\ data.bound
        /\ Len(data.rows) = Len(file.rows)
        /\ \A i \in 1..Len(data.rows) :
              /\ Category(data.rows[i]) \in Categories
              /\ NotANumber(file.rows[i]["risk_score"]) =>
                    /\ Key(data.rows[i]).nan
                    /\ Category(data.rows[i]) = "Low"

\* a loaded file with an unparseable score, classified Low
C2_Witness ==
    /\ data.bound
    /\ \E i \in 1..Len(data.rows) :
          /\ NotANumber(file.rows[i]["risk_score"])
          /\ Category(data.rows[i]) = "Low"

NoDataIndication(v) == v.kind \in {"info", "text"}

\* C3: when the selected city has no row (the file has every required
\* column), the pass ends without an exception and each of the map, the
\* top-roads table, the trend chart and the three tabs shows an explicit
\* "no data" indication.
C3_EmptyCityAllViews ==
    (/\ file.readable /\ file.columns = RequiredColumns
     /\ pc \in {"done", "failed"} /\ city_data.bound /\ Empty(city_data)) =>
        /\ error = "none"
        /\ NoDataIndication(map_view)
        /\ NoDataIndication(table_view)
        /\ NoDataIndication(trend_view)
        /\ \A c \in Categories : NoDataIndication(tabs_view[c])

Min(a, b) == IF a < b THEN a ELSE b

TopDrawnFromSubset ==
    /\ Len(top.rows) = Min(Len(city_data.rows), 10)
    /\ \A i, j \in 1..Len(top.rows) : top.rows[i]["index"] = top.rows[j]["index"] => i = j
    /\ \A i \in 1..Len(top.rows) :
          \E j \in 1..Len(city_data.rows) :
              \A c \in DOMAIN city_data.rows[j] : top.rows[i][c] = city_data.rows[j][c]

\* C4 as stated: the ranking has min(m, 10) records of the subset and each
\* record's score is >= the score of the record after it, missing scores
\* included.
C4_EveryPairDescending ==
    top.bound =>
        /\ TopDrawnFromSubset
        /\ \A i \in 1..(Len(top.rows) - 1) :
              FloatGe(Key(top.rows[i]), Key(top.rows[i + 1]))

\* C4 amended: the ranking has min(m, 10) records of the subset; a record
\* with a score is followed by a record with a lower or equal score or by
\* one with a missing score, and a record with a missing score is followed
\* only by records with a missing score.
C4_TopRanking ==
    top.bound =>
        /\ TopDrawnFromSubset
        /\ \A i \in 1..(Len(top.rows) - 1) :
              LET a == Key(top.rows[i])
                  b == Key(top.rows[i + 1])
              IN  /\ (~a.nan /\ ~b.nan) => a.val >= b.val
                  /\ a.nan => b.nan

\* a subset of more than ten rows, cut to ten, with scored and missing rows
C4_Witness ==
    /\ top.bound
    /\ Len(city_data.rows) > 10
    /\ Len(top.rows) = 10
    /\ \E i, j \in 1..Len(top.rows) :
          /\ ~Key(top.rows[i]).nan
          /\ Key(top.rows[j]).nan

\* C5: two records of the subset with the same score are ranked in the
\* order they have in the input.
C5_StableRanking ==
    top.bound =>
        \A i, j \in 1..Len(top.rows) :
            (i < j /\ Key(top.rows[i]) = Key(top.rows[j])) =>
                top.rows[i]["index"] < top.rows[j]["index"]

TabRows(c) == tabs_view[c].body

C7_LoadFailsFatally ==
    (~file.readable \/ file.columns # RequiredColumns) =>
        /\ ~data.bound
        /\ pc \in {"load", "failed"}
        /\ map_view = NoView /\ table_view = NoView
        /\ trend_view = NoView /\ tabs_view = NoTabs

\* C8: filtering a loaded dataset by a city and filtering the result by
\* the same city again gives the same rows in the same order; a city that
\* matches no row gives the empty subset, and the pass goes on unfailed.
C8_FilterIdempotent ==
    /\ (data.bound /\ "city" \in data.columns) =>
          \A c \in Cities \cup {NoCity} :
              LET once == filter_by_city(data, c)
              IN  /\ filter_by_city(once, c) = once
                  /\ (\A i \in 1..Len(data.rows) : data.rows[i]["city"] # c) =>
                        once.rows = <<>>
    /\ city_data.bound => filter_by_city(city_data, selected) = city_data
    /\ (pc = "map" /\ \A i \in 1..Len(data.rows) : data.rows[i]["city"] # selected) =>
          (error = "none" /\ city_data.bound /\ Empty(city_data))

\* the filter has kept several rows of one city and dropped another city's
C8_Witness ==
    /\ pc = "map"
    /\ Len(city_data.rows) >= 2
    /\ Len(data.rows) > Len(city_data.rows)

\* C9: the source file is read once in a session, whatever cities the user
\* selects afterwards (stated for a readable file with every required column).
C9_LoadedOnce ==
    (file.readable /\ file.columns = RequiredColumns) => reads <= 1

\* C10: once loaded, the dataset stays as load_data returned it through
\* every later step and selection: same rows, order, scores, categories
\* and column names, without risk_percentage or a display column name.
C10_DatasetUnchanged ==
    (pc # "load" /\ data.bound) =>
        /\ data = load_data(file)
        /\ data.columns = file.columns \cup {"risk_category"}
        /\ data.columns \cap {"risk_percentage", "Road", "Risk (%)", "Category", "Score"} = {}

\* a second pass has finished, its copies carrying the derived columns
C10_Witness ==
    /\ pc = "done"
    /\ runs >= 2
    /\ Len(data.rows) > 0
    /\ "risk_percentage" \in top.columns
    /\ "Road" \in frames["top_display"].columns
    /\ "Score" \in frames["low_data"].columns

====
